---- MODULE Spec2Model ----
(***************************************************************************)
(* SlotSwapper backend: the Event and SwapRequest collections and the      *)
(* request handlers of eventController.ts and swapController.ts.           *)
(*                                                                         *)
(* createSwapRequest and respondToSwapRequest run their body inside        *)
(* session.withTransaction: reads come from the snapshot taken by the      *)
(* first read, writes stay private until commit, a write to a document     *)
(* that another transaction holds or that changed since the snapshot       *)
(* raises WriteConflict (a TransientTransactionError) and withTransaction  *)
(* re-runs the callback.  createEvent, updateEvent and deleteEvent use no  *)
(* session: each of their database calls is a separate atomic operation.   *)
(***************************************************************************)
EXTENDS Integers, Sequences, FiniteSets, TLC

\* ---- bounds of the model ----
NumUsers == 2
\* slot ids a request may name; an id above MaxEvents names no document in Spec
MaxSlots == 3
\* createEvent calls in one run of Spec
MaxEvents == 2
\* createSwapRequest calls that pass their checks start while fewer offers are stored
MaxOffers == 2
NumProcs == 2

Users == 1..NumUsers
SlotIds == 1..MaxSlots
OfferIds == 1..MaxOffers
Procs == 1..NumProcs

\* ---- models/Event.ts, models/SwapRequest.ts ----
BUSY == "BUSY"
SWAPPABLE == "SWAPPABLE"
SWAP_PENDING == "SWAP_PENDING"
EventStatus == {BUSY, SWAPPABLE, SWAP_PENDING}

PENDING == "PENDING"
ACCEPTED == "ACCEPTED"
REJECTED == "REJECTED"
SwapRequestStatus == {PENDING, ACCEPTED, REJECTED}

\* a document that findById does not find
NoDoc == [userId |-> 0, status |-> "none"]

IEvent(u, st) == [userId |-> u, status |-> st]

ISwapRequest(rid, rs, tu, ts, st) ==
    [requesterId |-> rid, requesterSlotId |-> rs,
     targetUserId |-> tu, targetSlotId |-> ts, status |-> st]

VARIABLES
    events,        \* committed Event collection: slot id -> document or NoDoc
    nextEventId,   \* number of Event documents ever inserted (ids are never reused)
    swapRequests,  \* committed SwapRequest collection: sequence, the id is the index
    pc,            \* per handler: position in its code
    op,            \* per handler: which controller function it runs
    user,          \* per handler: req.user._id
    argA,          \* requesterSlotId | swapRequestId | eventId
    argB,          \* targetSlotId
    argS,          \* action | requested status
    wEvents,       \* per handler: uncommitted Event writes of its transaction
    wRequest,      \* per handler: uncommitted SwapRequest write of its transaction
    stale,         \* per handler: documents changed by others since its snapshot
    reply          \* the response sent in the last step, if any

vars == <<events, nextEventId, swapRequests, pc, op, user, argA, argB, argS,
          wEvents, wRequest, stale, reply>>

db == <<events, nextEventId, swapRequests>>

NoWrite == [kind |-> "none"]
NoReply == [proc |-> 0, op |-> "none", code |-> "none"]
NoEvents == [s \in {} |-> NoDoc]

Exists(ev, s) == s \in SlotIds /\ ev[s] # NoDoc

Init ==
    /\ events = [s \in SlotIds |-> NoDoc]
    /\ nextEventId = 0
    /\ swapRequests = << >>
    /\ pc = [p \in Procs |-> "idle"]
    /\ op = [p \in Procs |-> "none"]
    /\ user = [p \in Procs |-> 0]
    /\ argA = [p \in Procs |-> 0]
    /\ argB = [p \in Procs |-> 0]
    /\ argS = [p \in Procs |-> "none"]
    /\ wEvents = [p \in Procs |-> NoEvents]
    /\ wRequest = [p \in Procs |-> NoWrite]
    /\ stale = [p \in Procs |-> {}]
    /\ reply = NoReply

\* ---- the transaction layer under session.withTransaction ----

EDoc(s) == <<"event", s>>
RDoc(i) == <<"swapRequest", i>>

\* a handler whose transaction has taken its snapshot and has not ended
InTxn(p) == pc[p] \in {"upd1", "upd2", "save", "commit"}

\* the documents the transaction of p writes
WillWrite(p) ==
    IF op[p] = "createSwapRequest" THEN {EDoc(argA[p]), EDoc(argB[p])}
    ELSE IF op[p] = "respondToSwapRequest" /\ argA[p] \in 1..Len(swapRequests)
    THEN {EDoc(swapRequests[argA[p]].requesterSlotId),
          EDoc(swapRequests[argA[p]].targetSlotId), RDoc(argA[p])}
    ELSE {}

\* the documents p has written and not yet committed
Held(p) ==
    {EDoc(s) : s \in DOMAIN wEvents[p]} \cup
    (IF wRequest[p].kind = "update" THEN {RDoc(wRequest[p].id)} ELSE {})

\* mutant: a document written by a running transaction is not held
HeldByOther_Never(p, d) == FALSE

HeldByOther(p, d) == \E q \in Procs \ {p} : d \in Held(q)

\* mutant: concurrent writes of one document are not detected
WriteConflict_Undetected(p, d) == FALSE

\* a transactional write of p to document d raises WriteConflict
WriteConflict(p, d) == HeldByOther(p, d) \/ d \in stale[p]

\* a committed change of the documents ds by p is seen by every running snapshot
MarkStale(p, ds) ==
    [q \in Procs |-> IF q # p /\ InTxn(q) THEN stale[q] \cup (ds \cap WillWrite(q))
                     ELSE stale[q]]

Put(f, k, v) == [x \in DOMAIN f \cup {k} |-> IF x = k THEN v ELSE f[x]]

\* the response of handler p running o
Reply(p, o, code) == [proc |-> p, op |-> o, code |-> code]

\* the handler p ends; its request is forgotten
End(p) ==
    /\ pc' = [pc EXCEPT ![p] = "idle"]
    /\ op' = [op EXCEPT ![p] = "none"]
    /\ user' = [user EXCEPT ![p] = 0]
    /\ argA' = [argA EXCEPT ![p] = 0]
    /\ argB' = [argB EXCEPT ![p] = 0]
    /\ argS' = [argS EXCEPT ![p] = "none"]

\* the handler p sends the response code and ends
Respond(p, o, code) ==
    /\ reply' = Reply(p, o, code)
    /\ End(p)

\* the handler p goes on to the step at of o, its request being (u, a, b, s)
Goto(p, o, at, u, a, b, s) ==
    /\ pc' = [pc EXCEPT ![p] = at]
    /\ op' = [op EXCEPT ![p] = o]
    /\ user' = [user EXCEPT ![p] = u]
    /\ argA' = [argA EXCEPT ![p] = a]
    /\ argB' = [argB EXCEPT ![p] = b]
    /\ argS' = [argS EXCEPT ![p] = s]
    /\ reply' = NoReply

\* requests are served by the first free handler (handlers are interchangeable)
Free(p) == pc[p] = "idle" /\ \A q \in Procs : q < p => pc[q] # "idle"

\* the Event collection after the writes w are applied
ApplyEvents(ev, w) == [s \in SlotIds |-> IF s \in DOMAIN w THEN w[s] ELSE ev[s]]

\* the uncommitted writes of p are dropped
Rollback(p) ==
    /\ wEvents' = [wEvents EXCEPT ![p] = NoEvents]
    /\ wRequest' = [wRequest EXCEPT ![p] = NoWrite]
    /\ stale' = [stale EXCEPT ![p] = {}]

\* session.withTransaction: the callback threw a TransientTransactionError
AbortAndRetry(p) ==
    /\ Rollback(p)
    /\ pc' = [pc EXCEPT ![p] = "retry"]
    /\ reply' = NoReply
    /\ UNCHANGED <<db, op, user, argA, argB, argS>>

\* mutant: the slot updates issued before the failure stay in the collection
AbortAndFail_KeepsUpdates(p) ==
    /\ events' = ApplyEvents(events, wEvents[p])
    /\ Rollback(p)
    /\ Respond(p, op[p], "INTERNAL_SERVER_ERROR")
    /\ UNCHANGED <<nextEventId, swapRequests>>

\* session.withTransaction: the callback threw any other error; the catch block answers 500
AbortAndFail(p) ==
    /\ Rollback(p)
    /\ Respond(p, op[p], "INTERNAL_SERVER_ERROR")
    /\ UNCHANGED db

\* the SwapRequest collection after the write w is applied
ApplyRequest(reqs, w) ==
    IF w.kind = "insert" THEN Append(reqs, w.doc)
    ELSE IF w.kind = "update" THEN [reqs EXCEPT ![w.id].status = w.status]
    ELSE reqs

\* session.withTransaction: the callback returned (it has sent its response),
\* the transaction commits
Commit(p) ==
    /\ pc[p] = "commit"
    /\ events' = ApplyEvents(events, wEvents[p])
    /\ swapRequests' = ApplyRequest(swapRequests, wRequest[p])
    /\ stale' = [MarkStale(p, Held(p)) EXCEPT ![p] = {}]
    /\ wEvents' = [wEvents EXCEPT ![p] = NoEvents]
    /\ wRequest' = [wRequest EXCEPT ![p] = NoWrite]
    /\ End(p)
    /\ reply' = NoReply
    /\ UNCHANGED nextEventId

\* ---- swapController.ts: createSwapRequest ----

PendingFor(reqs, a, b) ==
    \E i \in 1..Len(reqs) :
        /\ reqs[i].status = PENDING
        /\ \/ (reqs[i].requesterSlotId = a /\ reqs[i].targetSlotId = b)
           \/ (reqs[i].requesterSlotId = b /\ reqs[i].targetSlotId = a)

\* mutant: the check that the caller does not own the target slot is left out
CsrValidate_NoSelfSwapCheck(ev, reqs, u, a, b) ==
    IF ~Exists(ev, a) \/ ~Exists(ev, b) THEN "SLOT_NOT_FOUND"
    ELSE IF ev[a].userId # u THEN "UNAUTHORIZED_SLOT_ACCESS"
    ELSE IF ev[a].status # SWAPPABLE THEN "INVALID_REQUESTER_SLOT_STATUS"
    ELSE IF ev[b].status # SWAPPABLE THEN "INVALID_TARGET_SLOT_STATUS"
    ELSE IF PendingFor(reqs, a, b) THEN "DUPLICATE_SWAP_REQUEST"
    ELSE "OK"

\* mutant: the check that the caller owns the proposer slot is left out
CsrValidate_NoOwnerCheck(ev, reqs, u, a, b) ==
    IF ~Exists(ev, a) \/ ~Exists(ev, b) THEN "SLOT_NOT_FOUND"
    ELSE IF ev[b].userId = u THEN "SELF_SWAP_ATTEMPT"
    ELSE IF ev[a].status # SWAPPABLE THEN "INVALID_REQUESTER_SLOT_STATUS"
    ELSE IF ev[b].status # SWAPPABLE THEN "INVALID_TARGET_SLOT_STATUS"
    ELSE IF PendingFor(reqs, a, b) THEN "DUPLICATE_SWAP_REQUEST"
    ELSE "OK"

\* the checks of the callback, on the snapshot (ev, reqs)
CsrValidate(ev, reqs, u, a, b) ==
    IF ~Exists(ev, a) \/ ~Exists(ev, b) THEN "SLOT_NOT_FOUND"
    ELSE IF ev[a].userId # u THEN "UNAUTHORIZED_SLOT_ACCESS"
    ELSE IF ev[b].userId = u THEN "SELF_SWAP_ATTEMPT"
    ELSE IF ev[a].status # SWAPPABLE THEN "INVALID_REQUESTER_SLOT_STATUS"
    ELSE IF ev[b].status # SWAPPABLE THEN "INVALID_TARGET_SLOT_STATUS"
    ELSE IF PendingFor(reqs, a, b) THEN "DUPLICATE_SWAP_REQUEST"
    ELSE "OK"

CsrErrors == {"SLOT_NOT_FOUND", "UNAUTHORIZED_SLOT_ACCESS", "SELF_SWAP_ATTEMPT",
              "INVALID_REQUESTER_SLOT_STATUS", "INVALID_TARGET_SLOT_STATUS",
              "DUPLICATE_SWAP_REQUEST"}

\* one run of the callback up to its first write: the snapshot is the
\* committed state at its first read
CsrBody(p, u, a, b) ==
    LET code == CsrValidate(events, swapRequests, u, a, b) IN
    /\ stale' = [stale EXCEPT ![p] = {}]
    /\ IF code = "OK" THEN Goto(p, "createSwapRequest", "upd1", u, a, b, "none")
       ELSE Respond(p, "createSwapRequest", code)
    /\ UNCHANGED <<db, wEvents, wRequest>>

createSwapRequest(p) ==
    /\ Free(p)
    /\ \/ \E code \in CsrErrors :
            /\ \E u \in Users, a \in SlotIds, b \in SlotIds :
                   CsrValidate(events, swapRequests, u, a, b) = code
            /\ Respond(p, "createSwapRequest", code)
            /\ UNCHANGED <<db, wEvents, wRequest, stale>>
       \/ \E u \in Users, a \in SlotIds, b \in SlotIds :
            /\ CsrValidate(events, swapRequests, u, a, b) = "OK"
            /\ Len(swapRequests) < MaxOffers
            /\ CsrBody(p, u, a, b)

createSwapRequest_retry(p) ==
    /\ pc[p] = "retry"
    /\ op[p] = "createSwapRequest"
    /\ CsrBody(p, user[p], argA[p], argB[p])

\* mutant: the slot update is issued without the session and is visible at once
createSwapRequest_update_NoSession(p) ==
    /\ pc[p] \in {"upd1", "upd2"}
    /\ op[p] = "createSwapRequest"
    /\ LET s == IF pc[p] = "upd1" THEN argA[p] ELSE argB[p] IN
       /\ events' = [events EXCEPT ![s].status = SWAP_PENDING]
       /\ pc' = [pc EXCEPT ![p] = IF pc[p] = "upd1" THEN "upd2" ELSE "save"]
       /\ reply' = NoReply
       /\ UNCHANGED <<nextEventId, swapRequests, op, user, argA, argB, argS,
                      wEvents, wRequest, stale>>

\* Event.findByIdAndUpdate(slot, {status: SWAP_PENDING}, {session})
createSwapRequest_update(p) ==
    /\ pc[p] \in {"upd1", "upd2"}
    /\ op[p] = "createSwapRequest"
    /\ LET s == IF pc[p] = "upd1" THEN argA[p] ELSE argB[p] IN
       IF WriteConflict(p, EDoc(s))
       THEN AbortAndRetry(p)
       ELSE /\ wEvents' = [wEvents EXCEPT ![p] =
                             Put(@, s, [events[s] EXCEPT !.status = SWAP_PENDING])]
            /\ pc' = [pc EXCEPT ![p] = IF pc[p] = "upd1" THEN "upd2" ELSE "save"]
            /\ reply' = NoReply
            /\ UNCHANGED <<db, op, user, argA, argB, argS, wRequest, stale>>

\* the unique index {requesterSlotId: 1, targetSlotId: 1} of the collection
DuplicateKey(reqs, doc) ==
    \E i \in 1..Len(reqs) :
        /\ reqs[i].requesterSlotId = doc.requesterSlotId
        /\ reqs[i].targetSlotId = doc.targetSlotId

\* the two pre('save') hooks of swapRequestSchema
PreSaveFails(doc) ==
    doc.requesterId = doc.targetUserId \/ doc.requesterSlotId = doc.targetSlotId

\* new SwapRequest(...).save({session}), then the 201 response
createSwapRequest_save(p) ==
    /\ pc[p] = "save"
    /\ op[p] = "createSwapRequest"
    /\ LET doc == ISwapRequest(user[p], argA[p], events[argB[p]].userId, argB[p], PENDING) IN
       IF PreSaveFails(doc) \/ DuplicateKey(swapRequests, doc)
       THEN AbortAndFail(p)
       ELSE IF \E q \in Procs \ {p} : wRequest[q].kind = "insert"
                  /\ wRequest[q].doc.requesterSlotId = doc.requesterSlotId
                  /\ wRequest[q].doc.targetSlotId = doc.targetSlotId
       THEN AbortAndRetry(p)
       ELSE /\ wRequest' = [wRequest EXCEPT ![p] = [kind |-> "insert", doc |-> doc]]
            /\ reply' = Reply(p, op[p], "201")
            /\ pc' = [pc EXCEPT ![p] = "commit"]
            /\ UNCHANGED <<db, op, user, argA, argB, argS, wEvents, stale>>

\* ---- swapController.ts: respondToSwapRequest ----

Actions == {"accept", "reject"}

\* mutant: only an accepted request counts as resolved
RsrValidate_OnlyAcceptedFinal(ev, reqs, u, id, action) ==
    IF id \notin 1..Len(reqs) THEN "SWAP_REQUEST_NOT_FOUND"
    ELSE IF reqs[id].targetUserId # u THEN "UNAUTHORIZED_RESPONSE"
    ELSE IF reqs[id].status = ACCEPTED THEN "INVALID_REQUEST_STATUS"
    ELSE IF ~Exists(ev, reqs[id].requesterSlotId) THEN "TypeError"
    ELSE IF ev[reqs[id].requesterSlotId].status # SWAP_PENDING THEN "INVALID_SLOT_STATUS"
    ELSE IF ~Exists(ev, reqs[id].targetSlotId) THEN "TypeError"
    ELSE IF ev[reqs[id].targetSlotId].status # SWAP_PENDING THEN "INVALID_SLOT_STATUS"
    ELSE "OK"

\* mutant: the check of the request's status is left out
RsrValidate_NoStatusCheck(ev, reqs, u, id, action) ==
    IF id \notin 1..Len(reqs) THEN "SWAP_REQUEST_NOT_FOUND"
    ELSE IF reqs[id].targetUserId # u THEN "UNAUTHORIZED_RESPONSE"
    ELSE IF ~Exists(ev, reqs[id].requesterSlotId) THEN "TypeError"
    ELSE IF ev[reqs[id].requesterSlotId].status # SWAP_PENDING THEN "INVALID_SLOT_STATUS"
    ELSE IF ~Exists(ev, reqs[id].targetSlotId) THEN "TypeError"
    ELSE IF ev[reqs[id].targetSlotId].status # SWAP_PENDING THEN "INVALID_SLOT_STATUS"
    ELSE "OK"

\* mutant: the check of the caller against targetUserId is left out
RsrValidate_NoOwnerCheck(ev, reqs, u, id, action) ==
    IF id \notin 1..Len(reqs) THEN "SWAP_REQUEST_NOT_FOUND"
    ELSE IF reqs[id].status # PENDING THEN "INVALID_REQUEST_STATUS"
    ELSE IF ~Exists(ev, reqs[id].requesterSlotId) THEN "TypeError"
    ELSE IF ev[reqs[id].requesterSlotId].status # SWAP_PENDING THEN "INVALID_SLOT_STATUS"
    ELSE IF ~Exists(ev, reqs[id].targetSlotId) THEN "TypeError"
    ELSE IF ev[reqs[id].targetSlotId].status # SWAP_PENDING THEN "INVALID_SLOT_STATUS"
    ELSE "OK"

\* mutant: the status of the request is checked before the caller
RsrValidate_StatusFirst(ev, reqs, u, id, action) ==
    IF id \notin 1..Len(reqs) THEN "SWAP_REQUEST_NOT_FOUND"
    ELSE IF reqs[id].status # PENDING THEN "INVALID_REQUEST_STATUS"
    ELSE IF reqs[id].targetUserId # u THEN "UNAUTHORIZED_RESPONSE"
    ELSE IF ~Exists(ev, reqs[id].requesterSlotId) THEN "TypeError"
    ELSE IF ev[reqs[id].requesterSlotId].status # SWAP_PENDING THEN "INVALID_SLOT_STATUS"
    ELSE IF ~Exists(ev, reqs[id].targetSlotId) THEN "TypeError"
    ELSE IF ev[reqs[id].targetSlotId].status # SWAP_PENDING THEN "INVALID_SLOT_STATUS"
    ELSE "OK"

\* the checks of the callback, on the snapshot (ev, reqs); populate() yields
\* null for a deleted slot and reading its status throws a TypeError
RsrValidate(ev, reqs, u, id, action) ==
    IF id \notin 1..Len(reqs) THEN "SWAP_REQUEST_NOT_FOUND"
    ELSE IF reqs[id].targetUserId # u THEN "UNAUTHORIZED_RESPONSE"
    ELSE IF reqs[id].status # PENDING THEN "INVALID_REQUEST_STATUS"
    ELSE IF ~Exists(ev, reqs[id].requesterSlotId) THEN "TypeError"
    ELSE IF ev[reqs[id].requesterSlotId].status # SWAP_PENDING THEN "INVALID_SLOT_STATUS"
    ELSE IF ~Exists(ev, reqs[id].targetSlotId) THEN "TypeError"
    ELSE IF ev[reqs[id].targetSlotId].status # SWAP_PENDING THEN "INVALID_SLOT_STATUS"
    ELSE "OK"

RsrErrors == {"SWAP_REQUEST_NOT_FOUND", "UNAUTHORIZED_RESPONSE", "INVALID_REQUEST_STATUS",
              "TypeError", "INVALID_SLOT_STATUS"}

\* the response to a failed check; the catch block turns a thrown error into a 500
RsrCode(code) == IF code = "TypeError" THEN "INTERNAL_SERVER_ERROR" ELSE code

\* one run of the callback up to its first write
RsrBody(p, u, id, action) ==
    LET code == RsrValidate(events, swapRequests, u, id, action) IN
    /\ stale' = [stale EXCEPT ![p] = {}]
    /\ IF code = "OK" THEN Goto(p, "respondToSwapRequest", "upd1", u, id, 0, action)
       ELSE Respond(p, "respondToSwapRequest", RsrCode(code))
    /\ UNCHANGED <<db, wEvents, wRequest>>

respondToSwapRequest(p) ==
    /\ Free(p)
    /\ \/ \E code \in RsrErrors :
            /\ \E u \in Users, id \in OfferIds, action \in Actions :
                   RsrValidate(events, swapRequests, u, id, action) = code
            /\ Respond(p, "respondToSwapRequest", RsrCode(code))
            /\ UNCHANGED <<db, wEvents, wRequest, stale>>
       \/ \E u \in Users, id \in OfferIds, action \in Actions :
            /\ RsrValidate(events, swapRequests, u, id, action) = "OK"
            /\ RsrBody(p, u, id, action)

respondToSwapRequest_retry(p) ==
    /\ pc[p] = "retry"
    /\ op[p] = "respondToSwapRequest"
    /\ RsrBody(p, user[p], argA[p], argS[p])

\* mutant: a rejection leaves the slot as it is
RsrUpdate_RejectKeepsLock(r, s, action, doc) ==
    IF action = "reject" THEN doc
    ELSE IF s = r.requesterSlotId
    THEN [doc EXCEPT !.userId = r.targetUserId, !.status = BUSY]
    ELSE [doc EXCEPT !.userId = r.requesterId, !.status = BUSY]

\* mutant: the accept replaces the document instead of setting two of its fields
RsrUpdate_ReplacesDocument(r, s, action, doc) ==
    IF action = "reject" THEN [doc EXCEPT !.status = SWAPPABLE]
    ELSE IF s = r.requesterSlotId
    THEN IEvent(r.targetUserId, BUSY)
    ELSE IEvent(r.requesterId, BUSY)

\* the update respondToSwapRequest applies to the slot s of the request r
RsrUpdate(r, s, action, doc) ==
    IF action = "reject" THEN [doc EXCEPT !.status = SWAPPABLE]
    ELSE IF s = r.requesterSlotId
    THEN [doc EXCEPT !.userId = r.targetUserId, !.status = BUSY]
    ELSE [doc EXCEPT !.userId = r.requesterId, !.status = BUSY]

\* Event.findByIdAndUpdate(slot._id, {...}, {session})
respondToSwapRequest_update(p) ==
    /\ pc[p] \in {"upd1", "upd2"}
    /\ op[p] = "respondToSwapRequest"
    /\ LET r == swapRequests[argA[p]]
           s == IF pc[p] = "upd1" THEN r.requesterSlotId ELSE r.targetSlotId IN
       IF WriteConflict(p, EDoc(s))
       THEN AbortAndRetry(p)
       ELSE /\ wEvents' = [wEvents EXCEPT ![p] =
                             Put(@, s, RsrUpdate(r, s, argS[p], events[s]))]
            /\ pc' = [pc EXCEPT ![p] = IF pc[p] = "upd1" THEN "upd2" ELSE "save"]
            /\ reply' = NoReply
            /\ UNCHANGED <<db, op, user, argA, argB, argS, wRequest, stale>>

\* swapRequest.status = ...; swapRequest.save({session}), then the response
respondToSwapRequest_save(p) ==
    /\ pc[p] = "save"
    /\ op[p] = "respondToSwapRequest"
    /\ IF WriteConflict(p, RDoc(argA[p]))
       THEN AbortAndRetry(p)
       ELSE /\ wRequest' = [wRequest EXCEPT ![p] =
                              [kind |-> "update", id |-> argA[p],
                               status |-> IF argS[p] = "reject" THEN REJECTED ELSE ACCEPTED]]
            /\ reply' = Reply(p, op[p], "200")
            /\ pc' = [pc EXCEPT ![p] = "commit"]
            /\ UNCHANGED <<db, op, user, argA, argB, argS, wEvents, stale>>

\* ---- eventController.ts ----

\* new Event({...}).save(): the status of the body is stored as given.
\* User ids are interchangeable: the k-th event is created by one of the first k users.
createEvent(p) ==
    /\ Free(p)
    /\ nextEventId < MaxEvents
    /\ \E u \in Users, st \in EventStatus :
        /\ u <= nextEventId + 1
        /\ events' = [events EXCEPT ![nextEventId + 1] = IEvent(u, st)]
        /\ nextEventId' = nextEventId + 1
        /\ Respond(p, "createEvent", "201")
        /\ UNCHANGED <<swapRequests, wEvents, wRequest, stale>>

\* mutant: the check of the existing status is left out
UpdValidate_NoLockCheck(ev, u, e, st) ==
    IF ~Exists(ev, e) THEN "NOT_FOUND"
    ELSE IF ev[e].userId # u THEN "FORBIDDEN"
    ELSE "OK"

\* the checks of updateEvent on the document findById returned
UpdValidate(ev, u, e, st) ==
    IF ~Exists(ev, e) THEN "NOT_FOUND"
    ELSE IF ev[e].userId # u THEN "FORBIDDEN"
    ELSE IF ev[e].status = SWAP_PENDING /\ st # SWAP_PENDING THEN "VALIDATION_ERROR"
    ELSE "OK"

UpdErrors == {"NOT_FOUND", "FORBIDDEN", "VALIDATION_ERROR"}

\* Event.findById(eventId) and the checks, up to the write
updateEvent(p) ==
    /\ Free(p)
    /\ \/ \E code \in UpdErrors :
            /\ \E u \in Users, e \in SlotIds, st \in EventStatus :
                   UpdValidate(events, u, e, st) = code
            /\ Respond(p, "updateEvent", code)
       \/ \E u \in Users, e \in SlotIds, st \in EventStatus :
            /\ UpdValidate(events, u, e, st) = "OK"
            /\ Goto(p, "updateEvent", "write", u, e, 0, st)
    /\ UNCHANGED <<db, wEvents, wRequest, stale>>

\* Event.findByIdAndUpdate(eventId, updateData): no session, the write waits
\* for a transaction that holds the document
updateEvent_write(p) ==
    /\ pc[p] = "write"
    /\ op[p] = "updateEvent"
    /\ ~HeldByOther(p, EDoc(argA[p]))
    /\ events' = IF Exists(events, argA[p])
                 THEN [events EXCEPT ![argA[p]].status = argS[p]]
                 ELSE events
    /\ stale' = MarkStale(p, {EDoc(argA[p])})
    /\ Respond(p, "updateEvent", "200")
    /\ UNCHANGED <<nextEventId, swapRequests, wEvents, wRequest>>

\* the checks of deleteEvent on the document findById returned
DelValidate(ev, u, e) ==
    IF ~Exists(ev, e) THEN "NOT_FOUND"
    ELSE IF ev[e].userId # u THEN "FORBIDDEN"
    ELSE "OK"

DelErrors == {"NOT_FOUND", "FORBIDDEN"}

\* Event.findById(eventId) and the checks, up to the delete
deleteEvent(p) ==
    /\ Free(p)
    /\ \/ \E code \in DelErrors :
            /\ \E u \in Users, e \in SlotIds : DelValidate(events, u, e) = code
            /\ Respond(p, "deleteEvent", code)
       \/ \E u \in Users, e \in SlotIds :
            /\ DelValidate(events, u, e) = "OK"
            /\ Goto(p, "deleteEvent", "write", u, e, 0, "none")
    /\ UNCHANGED <<db, wEvents, wRequest, stale>>

\* Event.findByIdAndDelete(eventId)
deleteEvent_write(p) ==
    /\ pc[p] = "write"
    /\ op[p] = "deleteEvent"
    /\ ~HeldByOther(p, EDoc(argA[p]))
    /\ events' = [events EXCEPT ![argA[p]] = NoDoc]
    /\ stale' = MarkStale(p, {EDoc(argA[p])})
    /\ Respond(p, "deleteEvent", "200")
    /\ UNCHANGED <<nextEventId, swapRequests, wEvents, wRequest>>

\* res.json(...): the response sent in the last step leaves the server
Deliver ==
    /\ reply # NoReply
    /\ reply' = NoReply
    /\ UNCHANGED <<db, pc, op, user, argA, argB, argS, wEvents, wRequest, stale>>

Handler(p) ==
    \/ createEvent(p)
    \/ updateEvent(p)
    \/ updateEvent_write(p)
    \/ deleteEvent(p)
    \/ deleteEvent_write(p)
    \/ createSwapRequest(p)
    \/ createSwapRequest_retry(p)
    \/ createSwapRequest_update(p)
    \/ createSwapRequest_save(p)
    \/ respondToSwapRequest(p)
    \/ respondToSwapRequest_retry(p)
    \/ respondToSwapRequest_update(p)
    \/ respondToSwapRequest_save(p)
    \/ Commit(p)

Next ==
    \/ reply = NoReply /\ \E p \in Procs : Handler(p)
    \/ Deliver

Spec == Init /\ [][Next]_vars

\* ---- the swap handlers and the status edits on three tradable slots ----

\* the state after createEvent(1, SWAPPABLE), createEvent(2, SWAPPABLE), ... :
\* the first slot belongs to user 1, the others to user 2
InitSwap ==
    /\ events = [s \in SlotIds |-> IEvent(IF s = 1 THEN 1 ELSE 2, SWAPPABLE)]
    /\ nextEventId = MaxSlots
    /\ swapRequests = << >>
    /\ pc = [p \in Procs |-> "idle"]
    /\ op = [p \in Procs |-> "none"]
    /\ user = [p \in Procs |-> 0]
    /\ argA = [p \in Procs |-> 0]
    /\ argB = [p \in Procs |-> 0]
    /\ argS = [p \in Procs |-> "none"]
    /\ wEvents = [p \in Procs |-> NoEvents]
    /\ wRequest = [p \in Procs |-> NoWrite]
    /\ stale = [p \in Procs |-> {}]
    /\ reply = NoReply

SwapHandler(p) ==
    \/ updateEvent(p)
    \/ updateEvent_write(p)
    \/ createSwapRequest(p)
    \/ createSwapRequest_retry(p)
    \/ createSwapRequest_update(p)
    \/ createSwapRequest_save(p)
    \/ respondToSwapRequest(p)
    \/ respondToSwapRequest_retry(p)
    \/ respondToSwapRequest_update(p)
    \/ respondToSwapRequest_save(p)
    \/ Commit(p)

NextSwap ==
    \/ reply = NoReply /\ \E p \in Procs : SwapHandler(p)
    \/ Deliver

SpecSwap == InitSwap /\ [][NextSwap]_vars

\* ---- properties ----

\* the Open offers that reference slot s
OpenOn(reqs, s) ==
    {i \in 1..Len(reqs) : reqs[i].status = PENDING
                          /\ (reqs[i].requesterSlotId = s \/ reqs[i].targetSlotId = s)}

\* the Open offers that pair the slots a and b, in either direction
OpenFor(reqs, a, b) ==
    {i \in 1..Len(reqs) : reqs[i].status = PENDING
                          /\ {reqs[i].requesterSlotId, reqs[i].targetSlotId} = {a, b}}

\* the step is the commit of the transaction of handler p running o
Committing(p, o) == pc[p] = "commit" /\ op[p] = o /\ pc'[p] = "idle"

\* C1: a slot is Locked (SWAP_PENDING) if and only if exactly one Open
\* (PENDING) offer references it.
C1_LockedIffOneOpenOffer ==
    \A s \in SlotIds :
        Exists(events, s) =>
            (events[s].status = SWAP_PENDING <=> Cardinality(OpenOn(swapRequests, s)) = 1)

\* two createSwapRequest calls in flight that share one slot and pair it with
\* different other slots
Racing(p, q) ==
    /\ p # q
    /\ op[p] = "createSwapRequest" /\ op[q] = "createSwapRequest"
    /\ {argA[p], argB[p]} \cap {argA[q], argB[q]} # {}
    /\ {argA[p], argB[p]} # {argA[q], argB[q]}

SlotUnavailable == {"INVALID_REQUESTER_SLOT_STATUS", "INVALID_TARGET_SLOT_STATUS"}

\* C2: of the createSwapRequest calls racing on a shared Tradable slot at most
\* one reaches its commit, and a call of the race that answers while the race
\* is on answers success or the slot-unavailable error, never a generic error.
C2_RaceOnSharedSlot ==
    /\ [](\A p, q \in Procs : Racing(p, q) => ~(pc[p] = "commit" /\ pc[q] = "commit"))
    /\ [][\A p, q \in Procs :
            (Racing(p, q) /\ reply'.proc = p) => reply'.code \in {"201"} \cup SlotUnavailable]_vars

\* C3: right after a successful createSwapRequest (the offer is Open, its two
\* slots are Locked and owned as recorded) the identical call is answered
\* without an error.
C3_IdempotentCreate ==
    \A i \in 1..Len(swapRequests) :
        LET r == swapRequests[i] IN
        (/\ r.status = PENDING
         /\ events[r.requesterSlotId] = IEvent(r.requesterId, SWAP_PENDING)
         /\ events[r.targetSlotId] = IEvent(r.targetUserId, SWAP_PENDING))
        => CsrValidate(events, swapRequests, r.requesterId,
                       r.requesterSlotId, r.targetSlotId) \notin CsrErrors

\* C4: the commit of an accept exchanges the owners the two slots had before
\* it, leaves both slots Free (BUSY) and the offer Accepted.
C4_AcceptSwapsOwners ==
    [][\A p \in Procs :
        (Committing(p, "respondToSwapRequest") /\ argS[p] = "accept") =>
            LET r == swapRequests[argA[p]]
                a == r.requesterSlotId
                b == r.targetSlotId IN
            /\ events'[a].userId = events[b].userId
            /\ events'[b].userId = events[a].userId
            /\ events'[a].status = BUSY /\ events'[b].status = BUSY
            /\ swapRequests'[argA[p]].status = ACCEPTED]_vars

\* C5: the commit of a decline leaves both slots Tradable (SWAPPABLE) with the
\* owners they had before it, and the offer Declined (REJECTED).
C5_DeclineRestores ==
    [][\A p \in Procs :
        (Committing(p, "respondToSwapRequest") /\ argS[p] = "reject") =>
            LET r == swapRequests[argA[p]]
                a == r.requesterSlotId
                b == r.targetSlotId IN
            /\ events'[a] = IEvent(events[a].userId, SWAPPABLE)
            /\ events'[b] = IEvent(events[b].userId, SWAPPABLE)
            /\ swapRequests'[argA[p]].status = REJECTED]_vars

\* a decline has been committed: the offer is Declined and its slots are Tradable
C5_Witness ==
    \E i \in 1..Len(swapRequests) :
        /\ swapRequests[i].status = REJECTED
        /\ events[swapRequests[i].requesterSlotId] = IEvent(swapRequests[i].requesterId, SWAPPABLE)
        /\ events[swapRequests[i].targetSlotId] = IEvent(swapRequests[i].targetUserId, SWAPPABLE)

\* the handler p takes the step: it moves or it answers
Acts(p) == pc'[p] # pc[p] \/ reply'.proc = p

TxnOps == {"createSwapRequest", "respondToSwapRequest"}

NoWrites(p) == wEvents[p] = NoEvents /\ wRequest[p] = NoWrite

\* C6: a resolved offer admits no further resolution: every call on it fails
\* (for the target owner with INVALID_REQUEST_STATUS, the already-resolved
\* error), a resolution in flight never commits over a resolved offer, the
\* resolved offer never changes, and the failing call changes nothing.
C6_AtMostOneResolution ==
    /\ [](\A id \in 1..Len(swapRequests), u \in Users, action \in Actions :
            swapRequests[id].status # PENDING =>
                /\ RsrValidate(events, swapRequests, u, id, action) \in RsrErrors
                /\ u = swapRequests[id].targetUserId =>
                     RsrValidate(events, swapRequests, u, id, action) = "INVALID_REQUEST_STATUS")
    /\ [](\A p \in Procs :
            (op[p] = "respondToSwapRequest" /\ pc[p] = "commit") =>
                swapRequests[argA[p]].status = PENDING)
    /\ [][/\ \A id \in 1..Len(swapRequests) :
                swapRequests[id].status # PENDING => swapRequests'[id] = swapRequests[id]
          /\ reply'.code = "INVALID_REQUEST_STATUS" => db' = db]_vars

\* a second resolution attempt has been answered with the already-resolved error
C6_Witness ==
    /\ reply.op = "respondToSwapRequest"
    /\ reply.code = "INVALID_REQUEST_STATUS"
    /\ \E id \in 1..Len(swapRequests) : swapRequests[id].status # PENDING

\* C7: an offer's status changes only from Open, only in the commit of one
\* respondToSwapRequest, and in that same step both slots take exactly the
\* values that call writes; a respondToSwapRequest step that changes a slot
\* changes the offer with it.
C7_OneResolutionTakesEffect ==
    [][/\ \A id \in 1..Len(swapRequests) :
            swapRequests'[id].status # swapRequests[id].status =>
                LET r == swapRequests[id]
                    a == r.requesterSlotId
                    b == r.targetSlotId IN
                /\ r.status = PENDING
                /\ \E p \in Procs : Committing(p, "respondToSwapRequest") /\ argA[p] = id
                /\ IF swapRequests'[id].status = ACCEPTED
                   THEN /\ events'[a] = IEvent(r.targetUserId, BUSY)
                        /\ events'[b] = IEvent(r.requesterId, BUSY)
                   ELSE /\ swapRequests'[id].status = REJECTED
                        /\ events'[a] = IEvent(events[a].userId, SWAPPABLE)
                        /\ events'[b] = IEvent(events[b].userId, SWAPPABLE)
       /\ \A p \in Procs :
            (op[p] = "respondToSwapRequest" /\ Acts(p) /\ events' # events) =>
                swapRequests'[argA[p]].status # swapRequests[argA[p]].status]_vars

\* of two concurrent resolutions of one offer the first has committed and the
\* second, aborted by its write conflict, is about to re-run its callback
C7_Witness ==
    \E p \in Procs :
        /\ op[p] = "respondToSwapRequest"
        /\ pc[p] = "retry"
        /\ swapRequests[argA[p]].status # PENDING

\* C8: a caller who is not the offer's target owner gets UNAUTHORIZED_RESPONSE
\* (Forbidden) whatever the state of the offer, never gets past the checks,
\* and the call changes no offer and no slot.
C8_OnlyTargetOwnerResolves ==
    /\ [](\A id \in 1..Len(swapRequests), u \in Users, action \in Actions :
            u # swapRequests[id].targetUserId =>
                RsrValidate(events, swapRequests, u, id, action) = "UNAUTHORIZED_RESPONSE")
    /\ [](\A p \in Procs :
            (op[p] = "respondToSwapRequest" /\ pc[p] # "idle") =>
                user[p] = swapRequests[argA[p]].targetUserId)
    /\ [][reply'.code = "UNAUTHORIZED_RESPONSE" => db' = db]_vars

\* a call on an Open offer has been answered Forbidden
C8_Witness ==
    /\ reply.op = "respondToSwapRequest"
    /\ reply.code = "UNAUTHORIZED_RESPONSE"
    /\ \E id \in 1..Len(swapRequests) : swapRequests[id].status = PENDING

\* C9: createSwapRequest and respondToSwapRequest change the stored slots and
\* offers only in their commit; a step in which one of them answers an error
\* (the failed save after the slot updates included) or aborts to retry leaves
\* the stored state as it was and keeps none of its writes.
C9_AllOrNothing ==
    /\ [](\A p \in Procs : pc[p] \in {"idle", "retry"} => NoWrites(p))
    /\ [][\A p \in Procs :
            /\ (op[p] \in TxnOps /\ Acts(p) /\ pc[p] # "commit") => db' = db
            /\ (reply'.proc = p /\ reply'.op \in TxnOps /\ reply'.code \notin {"200", "201"}) =>
                   db' = db /\ wEvents'[p] = NoEvents /\ wRequest'[p] = NoWrite
            /\ (op[p] \in TxnOps /\ Acts(p) /\ pc'[p] = "retry") =>
                   db' = db /\ wEvents'[p] = NoEvents /\ wRequest'[p] = NoWrite]_vars

\* the save of createSwapRequest failed after both slot updates were issued
C9_Witness ==
    /\ reply.op = "createSwapRequest"
    /\ reply.code = "INTERNAL_SERVER_ERROR"
    /\ \A p \in Procs : NoWrites(p)

CsrAllowed(ev, u, a, b) ==
    /\ Exists(ev, a)
    /\ Exists(ev, b)
    /\ ev[a].userId = u
    /\ ev[b].userId # u
    /\ ev[a].status = SWAPPABLE
    /\ ev[b].status = SWAPPABLE

\* C11: createSwapRequest creates an offer only if both slots exist, the
\* caller owns the proposer slot and not the target slot and both slots are
\* Tradable: a call that misses one condition is answered with an error, an
\* offer appears only in the commit of a createSwapRequest whose conditions
\* hold on the stored slots, and an error answer changes nothing.
C11_CreateOnlyWhenValid ==
    /\ [](\A u \in Users, a \in SlotIds, b \in SlotIds :
            ~CsrAllowed(events, u, a, b) =>
                CsrValidate(events, swapRequests, u, a, b) \in CsrErrors)
    /\ [][/\ Len(swapRequests') # Len(swapRequests) =>
                \E p \in Procs :
                    /\ Committing(p, "createSwapRequest")
                    /\ CsrAllowed(events, user[p], argA[p], argB[p])
                    /\ Len(swapRequests') = Len(swapRequests) + 1
          /\ (reply'.op = "createSwapRequest" /\ reply'.code \in CsrErrors) => db' = db]_vars

\* with an offer already created, a createSwapRequest that misses a condition
\* has been answered with its error
C11_Witness ==
    /\ reply.op = "createSwapRequest"
    /\ reply.code \in CsrErrors
    /\ Len(swapRequests) > 0

\* C12: updateEvent by the owner asking Free or Tradable for a slot it reads
\* as Locked is answered VALIDATION_ERROR (any other caller FORBIDDEN), and
\* the failed call writes nothing, so the slot stays Locked.
C12_LockedRejectsStatusEdit ==
    /\ [](\A u \in Users, e \in SlotIds, st \in {BUSY, SWAPPABLE} :
            (Exists(events, e) /\ events[e].status = SWAP_PENDING) =>
                UpdValidate(events, u, e, st) =
                    IF events[e].userId = u THEN "VALIDATION_ERROR" ELSE "FORBIDDEN")
    /\ [][(reply'.op = "updateEvent" /\ reply'.code \in UpdErrors) =>
              /\ db' = db
              /\ \A p \in Procs : pc'[p] = pc[p]]_vars

\* a status edit of a Locked slot has been refused
C12_Witness ==
    /\ reply.op = "updateEvent"
    /\ reply.code = "VALIDATION_ERROR"
    /\ \E e \in SlotIds : events[e].status = SWAP_PENDING

\* C13: deleteEvent by the owner of a slot it reads as Locked (here: Locked
\* by an Open offer) is answered with an error, and no step of deleteEvent
\* removes or changes such a slot.
C13_LockedRejectsDelete ==
    /\ [](\A e \in SlotIds :
            (Exists(events, e) /\ events[e].status = SWAP_PENDING
             /\ OpenOn(swapRequests, e) # {}) =>
                DelValidate(events, events[e].userId, e) \in DelErrors)
    /\ [][\A p \in Procs :
            (op[p] = "deleteEvent" /\ Acts(p) /\ Exists(events, argA[p])
             /\ events[argA[p]].status = SWAP_PENDING
             /\ OpenOn(swapRequests, argA[p]) # {}) =>
                events'[argA[p]] = events[argA[p]]]_vars

\* C14: in every reachable state both slots of every Open offer exist.
C14_OpenOfferSlotsExist ==
    \A i \in 1..Len(swapRequests) :
        swapRequests[i].status = PENDING =>
            /\ Exists(events, swapRequests[i].requesterSlotId)
            /\ Exists(events, swapRequests[i].targetSlotId)

\* C15: createEvent and updateEvent never put a slot into Locked: a step in
\* which one of them answers leaves no slot Locked that was not Locked before.
C15_NoDirectLock ==
    [][reply'.op \in {"createEvent", "updateEvent"} =>
         \A s \in SlotIds :
            events'[s].status = SWAP_PENDING => events[s].status = SWAP_PENDING]_vars

\* C16: no write of updateEvent takes a slot that an Open offer holds Locked
\* out of Locked, whatever the interleaving of its read and its write with
\* createSwapRequest.
C16_EditNeverOverwritesLock ==
    [][\A p \in Procs :
        (op[p] = "updateEvent" /\ Acts(p) /\ Exists(events, argA[p])
         /\ events[argA[p]].status = SWAP_PENDING
         /\ OpenOn(swapRequests, argA[p]) # {}) =>
            events'[argA[p]].status = SWAP_PENDING]_vars

\* the status transitions of a slot and the operation that makes each
Transitions ==
    {<<BUSY, SWAPPABLE, "updateEvent">>, <<SWAPPABLE, BUSY, "updateEvent">>,
     <<SWAPPABLE, SWAP_PENDING, "createSwapRequest">>,
     <<SWAP_PENDING, SWAPPABLE, "reject">>, <<SWAP_PENDING, BUSY, "accept">>}

\* the operation whose write the step makes visible
StepOp ==
    IF \E p \in Procs : Committing(p, "createSwapRequest") THEN "createSwapRequest"
    ELSE IF \E p \in Procs : Committing(p, "respondToSwapRequest")
    THEN argS[CHOOSE p \in Procs : Committing(p, "respondToSwapRequest")]
    ELSE reply'.op

\* C17: the status of an existing slot changes only by Free -> Tradable and
\* Tradable -> Free (updateEvent), Tradable -> Locked (createSwapRequest),
\* Locked -> Tradable (decline) and Locked -> Free (accept).
C17_OnlyListedTransitions ==
    [][\A s \in SlotIds :
        (Exists(events, s) /\ Exists(events', s) /\ events'[s].status # events[s].status) =>
            <<events[s].status, events'[s].status, StepOp>> \in Transitions]_vars

\* C18: in every reachable state at most one Open offer pairs any two slots,
\* in either direction.
C18_OneOpenOfferPerPair ==
    \A a \in SlotIds, b \in SlotIds :
        Cardinality(OpenFor(swapRequests, a, b)) <= 1

\* createSwapRequest(S1, S2) and createSwapRequest(S2, S1) ran concurrently:
\* one has committed its offer, the other was aborted and will re-run
C18_Witness ==
    \E p \in Procs :
        /\ op[p] = "createSwapRequest"
        /\ pc[p] = "retry"
        /\ \E i \in OpenFor(swapRequests, argA[p], argB[p]) :
              swapRequests[i].requesterSlotId = argB[p]

\* the offers stored for the proposer slot a and the target slot b, in this order
OffersFor(reqs, a, b) ==
    {i \in 1..Len(reqs) : reqs[i].requesterSlotId = a /\ reqs[i].targetSlotId = b}

\* C19: pair uniqueness counts only Open offers: a createSwapRequest that has
\* passed its checks and whose ordered pair is stored only in Declined offers
\* saves its offer and is not answered with an error.
C19_RecreateAfterDecline ==
    [][\A p \in Procs :
        (/\ op[p] = "createSwapRequest" /\ pc[p] = "save" /\ Acts(p)
         /\ OffersFor(swapRequests, argA[p], argB[p]) # {}
         /\ \A i \in OffersFor(swapRequests, argA[p], argB[p]) :
               swapRequests[i].status = REJECTED) =>
            (pc'[p] = "commit" /\ reply'.code = "201")]_vars

\* C20: no step changes the status of an offer that is Accepted or Declined.
C20_ResolvedIsTerminal ==
    [][\A id \in 1..Len(swapRequests) :
        swapRequests[id].status \in {ACCEPTED, REJECTED} =>
            /\ id \in 1..Len(swapRequests')
            /\ swapRequests'[id].status = swapRequests[id].status]_vars

\* a Declined offer whose two slots are Locked again, where only the check of
\* the offer's status keeps a new resolution from going through
C20_Witness ==
    \E id \in 1..Len(swapRequests) :
        /\ swapRequests[id].status = REJECTED
        /\ events[swapRequests[id].requesterSlotId].status = SWAP_PENDING
        /\ events[swapRequests[id].targetSlotId].status = SWAP_PENDING

\* the handler p passes the checks of o in this step and goes on to its writes
PassesChecks(p, o) == pc[p] \in {"idle", "retry"} /\ pc'[p] = "upd1" /\ op'[p] = o

\* C21: every stored offer has a proposer owner different from its target
\* owner and a proposer slot different from its target slot; no
\* createSwapRequest passes its checks for a target slot the caller owns or
\* for one slot given twice.
C21_OfferLinksDistinct ==
    /\ [](\A i \in 1..Len(swapRequests) :
            /\ swapRequests[i].requesterId # swapRequests[i].targetUserId
            /\ swapRequests[i].requesterSlotId # swapRequests[i].targetSlotId)
    /\ [][\A p \in Procs :
            PassesChecks(p, "createSwapRequest") =>
                /\ events[argB'[p]].userId # user'[p]
                /\ argA'[p] # argB'[p]]_vars

\* two offers are stored, the second created after the first was resolved
C21_Witness ==
    /\ Len(swapRequests) = MaxOffers
    /\ swapRequests[1].status # PENDING

\* C22: offers are never deleted: every step, the deletion of a slot that an
\* offer references included, keeps every stored offer, with its id, its two
\* users and its two slots.
C22_OffersNeverDeleted ==
    [][/\ Len(swapRequests') >= Len(swapRequests)
       /\ \A i \in 1..Len(swapRequests) :
            [swapRequests'[i] EXCEPT !.status = PENDING] =
            [swapRequests[i] EXCEPT !.status = PENDING]]_vars

\* C23: respondToSwapRequest by the target owner on an Open offer whose two
\* slots are not both Locked (one is Free, Tradable or deleted) is answered
\* INVALID_SLOT_STATUS, the inconsistent-state error, and not a generic one.
C23_InconsistentStateError ==
    \A id \in 1..Len(swapRequests), action \in Actions :
        LET r == swapRequests[id]
            locked(s) == Exists(events, s) /\ events[s].status = SWAP_PENDING IN
        (r.status = PENDING /\ ~(locked(r.requesterSlotId) /\ locked(r.targetSlotId))) =>
            RsrCode(RsrValidate(events, swapRequests, r.targetUserId, id, action))
                = "INVALID_SLOT_STATUS"

\* C24: updateEvent and deleteEvent by a user who is not the slot's owner are
\* answered FORBIDDEN and write nothing, the owner is never answered
\* FORBIDDEN, and every write of updateEvent or deleteEvent to a slot is made
\* for the user who owns the slot when it is written.
C24_OnlyOwnerModifies ==
    /\ [](\A u \in Users, e \in SlotIds, st \in EventStatus :
            Exists(events, e) =>
                /\ events[e].userId # u =>
                     /\ UpdValidate(events, u, e, st) = "FORBIDDEN"
                     /\ DelValidate(events, u, e) = "FORBIDDEN"
                /\ events[e].userId = u =>
                     /\ UpdValidate(events, u, e, st) # "FORBIDDEN"
                     /\ DelValidate(events, u, e) = "OK")
    /\ [][/\ reply'.code = "FORBIDDEN" => db' = db
          /\ \A p \in Procs :
                (op[p] \in {"updateEvent", "deleteEvent"} /\ pc[p] = "write" /\ Acts(p)
                 /\ events'[argA[p]] # events[argA[p]]) =>
                    events[argA[p]].userId = user[p]]_vars

\* ---- the read accessors ----

RECURSIVE FindSwappable(_, _, _)
\* Event.find({status: SWAPPABLE, userId: {$ne: u}}) over the documents s, s+1, ...
FindSwappable(ev, u, s) ==
    IF s > MaxSlots THEN << >>
    ELSE (IF ev[s].status = SWAPPABLE /\ ev[s].userId # u THEN <<s>> ELSE << >>)
         \o FindSwappable(ev, u, s + 1)

\* mutant: the query does not exclude the caller's own slots
getSwappableSlots_IncludesOwn(ev, u) ==
    SelectSeq([s \in 1..MaxSlots |-> s], LAMBDA s : ev[s].status = SWAPPABLE)

\* eventController.ts: the slots getSwappableSlots returns to user u
getSwappableSlots(ev, u) == FindSwappable(ev, u, 1)

\* the elements of the sequence q
Range(q) == {q[i] : i \in 1..Len(q)}

\* C25: in every reachable state, for every user u, getSwappableSlots(u)
\* returns exactly the existing slots that are Tradable and not owned by u,
\* each once.
C25_SwappableSlotsExact ==
    \A u \in Users :
        LET q == getSwappableSlots(events, u) IN
        /\ Range(q) = {s \in SlotIds : /\ Exists(events, s)
                                       /\ events[s].status = SWAPPABLE
                                       /\ events[s].userId # u}
        /\ Len(q) = Cardinality(Range(q))

\* user 1 owns a Tradable slot and the query of user 1 returns one slot, the
\* Tradable slot of another user
C25_Witness ==
    /\ \E s \in SlotIds : events[s] = IEvent(1, SWAPPABLE)
    /\ Len(getSwappableSlots(events, 1)) = 1

RECURSIVE FindRequests(_, _, _, _)
\* SwapRequest.find({[field]: u}).sort({createdAt: -1}) over the documents i, i-1, ..., 1
FindRequests(reqs, field, u, i) ==
    IF i = 0 THEN << >>
    ELSE (IF reqs[i][field] = u THEN <<[id |-> i, doc |-> reqs[i]]>> ELSE << >>)
         \o FindRequests(reqs, field, u, i - 1)

\* mutant: without a status filter only the pending requests are fetched
getSwapRequests_OnlyPending(reqs, u) ==
    LET pending(q) == SelectSeq(q, LAMBDA x : x.doc.status = PENDING) IN
    [incoming |-> pending(FindRequests(reqs, "targetUserId", u, Len(reqs))),
     outgoing |-> pending(FindRequests(reqs, "requesterId", u, Len(reqs)))]

\* swapController.ts: the response of getSwapRequests to user u, no filter given
getSwapRequests(reqs, u) ==
    [incoming |-> FindRequests(reqs, "targetUserId", u, Len(reqs)),
     outgoing |-> FindRequests(reqs, "requesterId", u, Len(reqs))]

\* C26: in every reachable state, for every user u, getSwapRequests(u) without
\* a filter returns as incoming exactly the offers whose target owner is u and
\* as outgoing exactly those whose proposer is u, each once and with its
\* current document, whatever its status; an offer of other users is in neither.
C26_SwapRequestsComplete ==
    \A u \in Users :
        LET q == getSwapRequests(swapRequests, u)
            ids(x) == {x[k].id : k \in 1..Len(x)} IN
        /\ ids(q.incoming) = {i \in 1..Len(swapRequests) : swapRequests[i].targetUserId = u}
        /\ ids(q.outgoing) = {i \in 1..Len(swapRequests) : swapRequests[i].requesterId = u}
        /\ Len(q.incoming) = Cardinality(ids(q.incoming))
        /\ Len(q.outgoing) = Cardinality(ids(q.outgoing))
        /\ \A x \in Range(q.incoming) \cup Range(q.outgoing) : x.doc = swapRequests[x.id]

\* user 1 is the proposer of one offer and the target owner of another, and
\* one of the two is resolved
C26_Witness ==
    LET q == getSwapRequests(swapRequests, 1) IN
    /\ Len(q.incoming) = 1
    /\ Len(q.outgoing) = 1
    /\ \E x \in Range(q.incoming) \cup Range(q.outgoing) : x.doc.status # PENDING

\* ---- createEvent and updateEvent with the times of the events ----

\* instants a request may name; 0 stands for a field the body leaves out
MaxTime == 3
Times == 1..MaxTime

\* an Event document with its times
IEventTimes(u, st, start, end) ==
    [userId |-> u, status |-> st, startTime |-> start, endTime |-> end]

\* createEvent: start >= end is answered 400, else new Event({...}).save(),
\* whose pre('save') hook repeats the comparison
createEvent_times(p) ==
    /\ Free(p)
    /\ nextEventId < MaxEvents
    /\ \E u \in Users, start \in Times, end \in Times :
        /\ u <= nextEventId + 1
        /\ IF start >= end
           THEN /\ Respond(p, "createEvent", "VALIDATION_ERROR")
                /\ UNCHANGED <<events, nextEventId>>
           ELSE /\ events' = [events EXCEPT ![nextEventId + 1] = IEventTimes(u, BUSY, start, end)]
                /\ nextEventId' = nextEventId + 1
                /\ Respond(p, "createEvent", "201")
        /\ UNCHANGED <<swapRequests, wEvents, wRequest, stale>>

\* the checks of updateEvent on the document findById returned, the body
\* naming startTime, endTime or both: a time left out is taken from the document
UpdValidateTimes(ev, u, e, start, end) ==
    IF ~Exists(ev, e) THEN "NOT_FOUND"
    ELSE IF ev[e].userId # u THEN "FORBIDDEN"
    ELSE LET newStartTime == IF start # 0 THEN start ELSE ev[e].startTime
             newEndTime == IF end # 0 THEN end ELSE ev[e].endTime IN
         IF (start # 0 \/ end # 0) /\ newStartTime >= newEndTime THEN "VALIDATION_ERROR"
         ELSE "OK"

\* updateData: only the times the body names
UpdateData(start, end) ==
    [f \in {x \in {"startTime", "endTime"} :
                (x = "startTime" /\ start # 0) \/ (x = "endTime" /\ end # 0)}
        |-> IF f = "startTime" THEN start ELSE end]

\* Event.findById(eventId) and the checks, up to the write; the handler keeps updateData
updateEvent_times(p) ==
    /\ Free(p)
    /\ \/ \E code \in UpdErrors :
            /\ \E u \in Users, e \in SlotIds, start \in 0..MaxTime, end \in 0..MaxTime :
                   UpdValidateTimes(events, u, e, start, end) = code
            /\ Respond(p, "updateEvent", code)
            /\ UNCHANGED wEvents
       \/ \E u \in Users, e \in SlotIds, start \in 0..MaxTime, end \in 0..MaxTime :
            /\ UpdValidateTimes(events, u, e, start, end) = "OK"
            /\ Goto(p, "updateEvent", "write", u, e, 0, "none")
            /\ wEvents' = [wEvents EXCEPT ![p] = Put(NoEvents, e, UpdateData(start, end))]
    /\ UNCHANGED <<db, wRequest, stale>>

\* the pre('findOneAndUpdate') hook of the schema: it compares the times of
\* the update only when the update names both
PreUpdateFails(update) ==
    /\ {"startTime", "endTime"} \subseteq DOMAIN update
    /\ update.startTime >= update.endTime

\* the document after $set of the fields of update
SetFields(doc, update) ==
    [f \in DOMAIN doc |-> IF f \in DOMAIN update THEN update[f] ELSE doc[f]]

\* Event.findByIdAndUpdate(eventId, updateData, {new: true, runValidators: true})
updateEvent_times_write(p) ==
    /\ pc[p] = "write"
    /\ op[p] = "updateEvent"
    /\ LET update == wEvents[p][argA[p]] IN
       IF PreUpdateFails(update)
       THEN /\ Respond(p, "updateEvent", "VALIDATION_ERROR")
            /\ UNCHANGED events
       ELSE /\ events' = [events EXCEPT ![argA[p]] = SetFields(@, update)]
            /\ Respond(p, "updateEvent", "200")
    /\ wEvents' = [wEvents EXCEPT ![p] = NoEvents]
    /\ UNCHANGED <<nextEventId, swapRequests, wRequest, stale>>

TimesHandler(p) ==
    \/ createEvent_times(p)
    \/ updateEvent_times(p)
    \/ updateEvent_times_write(p)

NextTimes ==
    \/ reply = NoReply /\ \E p \in Procs : TimesHandler(p)
    \/ Deliver

SpecTimes == Init /\ [][NextTimes]_vars

\* C27: every slot in every reachable state has its start time strictly
\* before its end time, after any createEvent and updateEvent calls, also
\* those that name one time only and those that run concurrently.
C27_StartBeforeEnd ==
    \A s \in SlotIds : Exists(events, s) => events[s].startTime < events[s].endTime

\* ---- api/index.ts: the single-file server ----
\* Its handlers use no session: every awaited database call is a step.

\* a SwapRequest document of swapRequestSchema in api/index.ts
ApiSwapRequest(rid, re, tu, te, st) ==
    [requesterId |-> rid, requesterEventId |-> re,
     targetUserId |-> tu, targetEventId |-> te, status |-> st]

\* the place of a SwapRequest document that deleteMany removed (ids are never reused)
Deleted == [status |-> "deleted"]

\* SwapRequest.findOne({requesterId, targetUserId, requesterEventId, targetEventId, status: 'PENDING'})
ApiExisting(reqs, u, tu, a, b) ==
    \E i \in 1..Len(reqs) : reqs[i] = ApiSwapRequest(u, a, tu, b, PENDING)

\* the three findOne checks of POST /swap/request
ApiPostValidate(ev, reqs, u, tu, a, b) ==
    IF ~(Exists(ev, a) /\ ev[a].userId = u /\ ev[a].status = SWAPPABLE) THEN "400"
    ELSE IF ~(Exists(ev, b) /\ ev[b].userId = tu /\ ev[b].status = SWAPPABLE) THEN "400"
    ELSE IF ApiExisting(reqs, u, tu, a, b) THEN "400"
    ELSE "OK"

\* SwapRequest documents stored or about to be stored
ApiOffers == Len(swapRequests) + Cardinality({q \in Procs : pc[q] = "api_save"})

\* POST /swap/request: the checks, up to new SwapRequest({...})
api_post_swap_request(p) ==
    /\ Free(p)
    /\ \/ /\ \E u \in Users, tu \in Users, a \in SlotIds, b \in SlotIds :
                ApiPostValidate(events, swapRequests, u, tu, a, b) = "400"
          /\ Respond(p, "POST /swap/request", "400")
          /\ UNCHANGED wRequest
       \/ /\ ApiOffers < MaxOffers
          /\ \E u \in Users, tu \in Users, a \in SlotIds, b \in SlotIds :
                /\ ApiPostValidate(events, swapRequests, u, tu, a, b) = "OK"
                /\ Goto(p, "POST /swap/request", "api_save", u, a, b, "none")
                /\ wRequest' = [wRequest EXCEPT ![p] =
                        [kind |-> "insert", doc |-> ApiSwapRequest(u, a, tu, b, PENDING)]]
    /\ UNCHANGED <<db, wEvents, stale>>

\* swapRequest.save()
api_post_swap_request_save(p) ==
    /\ pc[p] = "api_save"
    /\ swapRequests' = Append(swapRequests, wRequest[p].doc)
    /\ wRequest' = [wRequest EXCEPT ![p] = NoWrite]
    /\ pc' = [pc EXCEPT ![p] = "api_lock1"]
    /\ reply' = NoReply
    /\ UNCHANGED <<events, nextEventId, op, user, argA, argB, argS, wEvents, stale>>

\* Event.findByIdAndUpdate(id, {status}): no document, no write
ApiSetStatus(ev, e, st) ==
    IF Exists(ev, e) THEN [ev EXCEPT ![e].status = st] ELSE ev

\* Event.findByIdAndUpdate(requesterEventId, {status: 'SWAP_PENDING'})
api_post_swap_request_lock1(p) ==
    /\ pc[p] = "api_lock1"
    /\ events' = ApiSetStatus(events, argA[p], SWAP_PENDING)
    /\ pc' = [pc EXCEPT ![p] = "api_lock2"]
    /\ reply' = NoReply
    /\ UNCHANGED <<nextEventId, swapRequests, op, user, argA, argB, argS, wEvents, wRequest, stale>>

\* Event.findByIdAndUpdate(targetEventId, {status: 'SWAP_PENDING'}), then the 201 response
api_post_swap_request_lock2(p) ==
    /\ pc[p] = "api_lock2"
    /\ events' = ApiSetStatus(events, argB[p], SWAP_PENDING)
    /\ Respond(p, op[p], "201")
    /\ UNCHANGED <<nextEventId, swapRequests, wEvents, wRequest, stale>>

\* SwapRequest.findOne({_id: id, targetUserId: userId, status: 'PENDING'})
ApiFindPending(reqs, u, id) ==
    /\ id \in 1..Len(reqs)
    /\ reqs[id] # Deleted
    /\ reqs[id].targetUserId = u
    /\ reqs[id].status = PENDING

\* PUT /swap/request/:id: the lookup, 404 when it finds nothing; the handler
\* keeps the document it found
api_put_swap_request(p) ==
    /\ Free(p)
    /\ \/ /\ \E u \in Users, id \in OfferIds : ~ApiFindPending(swapRequests, u, id)
          /\ Respond(p, "PUT /swap/request/:id", "404")
          /\ UNCHANGED wRequest
       \/ \E u \in Users, id \in OfferIds, status \in {ACCEPTED, REJECTED} :
             /\ ApiFindPending(swapRequests, u, id)
             /\ Goto(p, "PUT /swap/request/:id", "api_status", u, id, 0, status)
             /\ wRequest' = [wRequest EXCEPT ![p] = [kind |-> "found", doc |-> swapRequests[id]]]
    /\ UNCHANGED <<db, wEvents, stale>>

\* swapRequest.status = status; swapRequest.save(): the document is written by
\* its _id; save() rejects when the document is gone
api_put_swap_request_save(p) ==
    /\ pc[p] = "api_status"
    /\ IF swapRequests[argA[p]] = Deleted
       THEN /\ Respond(p, op[p], "500")
            /\ wRequest' = [wRequest EXCEPT ![p] = NoWrite]
            /\ UNCHANGED swapRequests
       ELSE /\ swapRequests' = [swapRequests EXCEPT ![argA[p]].status = argS[p]]
            /\ pc' = [pc EXCEPT ![p] = IF argS[p] = ACCEPTED THEN "api_find" ELSE "api_reset1"]
            /\ reply' = NoReply
            /\ UNCHANGED <<op, user, argA, argB, argS, wRequest>>
    /\ UNCHANGED <<events, nextEventId, wEvents, stale>>

\* the paths of a document that differ from the values it was read with
Modified(doc, new) ==
    [f \in {x \in DOMAIN new : new[x] # doc[x]} |-> new[f]]

\* the two Event.findById calls of the accept branch; with both documents the
\* handler exchanges their userId and sets their status in memory, with one
\* missing it writes nothing and answers 200
api_put_swap_request_find(p) ==
    /\ pc[p] = "api_find"
    /\ LET a == wRequest[p].doc.requesterEventId
           b == wRequest[p].doc.targetEventId IN
       IF Exists(events, a) /\ Exists(events, b)
       THEN /\ wEvents' = [wEvents EXCEPT ![p] =
                    Put(Put(NoEvents, a, Modified(events[a], IEvent(events[b].userId, BUSY))),
                        b, Modified(events[b], IEvent(events[a].userId, BUSY)))]
            /\ pc' = [pc EXCEPT ![p] = "api_swap1"]
            /\ reply' = NoReply
            /\ UNCHANGED <<op, user, argA, argB, argS, wRequest>>
       ELSE /\ Respond(p, op[p], "200")
            /\ wRequest' = [wRequest EXCEPT ![p] = NoWrite]
            /\ UNCHANGED wEvents
    /\ UNCHANGED <<db, stale>>

\* document.save(): the modified paths are written by _id; save() rejects
\* when there is something to write and the document is gone
ApiSaveFails(ev, e, update) == DOMAIN update # {} /\ ~Exists(ev, e)

ApiSave(ev, e, update) ==
    IF Exists(ev, e) THEN [ev EXCEPT ![e] = SetFields(@, update)] ELSE ev

\* requesterEvent.save()
api_put_swap_request_swap1(p) ==
    /\ pc[p] = "api_swap1"
    /\ LET a == wRequest[p].doc.requesterEventId IN
       IF ApiSaveFails(events, a, wEvents[p][a])
       THEN /\ Respond(p, op[p], "500")
            /\ wEvents' = [wEvents EXCEPT ![p] = NoEvents]
            /\ wRequest' = [wRequest EXCEPT ![p] = NoWrite]
            /\ UNCHANGED events
       ELSE /\ events' = ApiSave(events, a, wEvents[p][a])
            /\ pc' = [pc EXCEPT ![p] = "api_swap2"]
            /\ reply' = NoReply
            /\ UNCHANGED <<op, user, argA, argB, argS, wEvents, wRequest>>
    /\ UNCHANGED <<nextEventId, swapRequests, stale>>

\* targetEvent.save(), then the 200 response
api_put_swap_request_swap2(p) ==
    /\ pc[p] = "api_swap2"
    /\ LET b == wRequest[p].doc.targetEventId IN
       IF ApiSaveFails(events, b, wEvents[p][b])
       THEN /\ Respond(p, op[p], "500")
            /\ UNCHANGED events
       ELSE /\ events' = ApiSave(events, b, wEvents[p][b])
            /\ Respond(p, op[p], "200")
    /\ wEvents' = [wEvents EXCEPT ![p] = NoEvents]
    /\ wRequest' = [wRequest EXCEPT ![p] = NoWrite]
    /\ UNCHANGED <<nextEventId, swapRequests, stale>>

\* Event.findByIdAndUpdate(swapRequest.requesterEventId, {status: 'SWAPPABLE'})
api_put_swap_request_reset1(p) ==
    /\ pc[p] = "api_reset1"
    /\ events' = ApiSetStatus(events, wRequest[p].doc.requesterEventId, SWAPPABLE)
    /\ pc' = [pc EXCEPT ![p] = "api_reset2"]
    /\ reply' = NoReply
    /\ UNCHANGED <<nextEventId, swapRequests, op, user, argA, argB, argS, wEvents, wRequest, stale>>

\* Event.findByIdAndUpdate(swapRequest.targetEventId, {status: 'SWAPPABLE'}), then the 200 response
api_put_swap_request_reset2(p) ==
    /\ pc[p] = "api_reset2"
    /\ events' = ApiSetStatus(events, wRequest[p].doc.targetEventId, SWAPPABLE)
    /\ Respond(p, op[p], "200")
    /\ wRequest' = [wRequest EXCEPT ![p] = NoWrite]
    /\ UNCHANGED <<nextEventId, swapRequests, wEvents, stale>>

\* DELETE /events/:id: Event.findOneAndDelete({_id: id, userId}), 404 when it finds nothing
api_delete_event(p) ==
    /\ Free(p)
    /\ \/ /\ \E u \in Users, e \in SlotIds : ~(Exists(events, e) /\ events[e].userId = u)
          /\ Respond(p, "DELETE /events/:id", "404")
          /\ UNCHANGED events
       \/ \E u \in Users, e \in SlotIds :
             /\ Exists(events, e) /\ events[e].userId = u
             /\ events' = [events EXCEPT ![e] = NoDoc]
             /\ Goto(p, "DELETE /events/:id", "api_cleanup", u, e, 0, "none")
    /\ UNCHANGED <<nextEventId, swapRequests, wEvents, wRequest, stale>>

\* SwapRequest.deleteMany({$or: [{requesterEventId: id}, {targetEventId: id}]}),
\* then the 200 response
api_delete_event_cleanup(p) ==
    /\ pc[p] = "api_cleanup"
    /\ swapRequests' =
          [i \in 1..Len(swapRequests) |->
              IF /\ swapRequests[i] # Deleted
                 /\ argA[p] \in {swapRequests[i].requesterEventId, swapRequests[i].targetEventId}
              THEN Deleted ELSE swapRequests[i]]
    /\ Respond(p, op[p], "200")
    /\ UNCHANGED <<events, nextEventId, wEvents, wRequest, stale>>

\* the positions of a handler after its first write and before its last
ApiBetweenWrites ==
    {"api_lock1", "api_lock2", "api_find", "api_swap1", "api_swap2",
     "api_reset1", "api_reset2", "api_cleanup"}

\* the awaited database call rejects (connection lost, timeout): the catch
\* block answers 500 and what was written stays
api_catch(p) ==
    /\ pc[p] \in ApiBetweenWrites
    /\ Respond(p, op[p], "500")
    /\ wEvents' = [wEvents EXCEPT ![p] = NoEvents]
    /\ wRequest' = [wRequest EXCEPT ![p] = NoWrite]
    /\ UNCHANGED <<db, stale>>

ApiHandler(p) ==
    \/ api_post_swap_request(p)
    \/ api_post_swap_request_save(p)
    \/ api_post_swap_request_lock1(p)
    \/ api_post_swap_request_lock2(p)
    \/ api_put_swap_request(p)
    \/ api_put_swap_request_save(p)
    \/ api_put_swap_request_find(p)
    \/ api_put_swap_request_swap1(p)
    \/ api_put_swap_request_swap2(p)
    \/ api_put_swap_request_reset1(p)
    \/ api_put_swap_request_reset2(p)
    \/ api_delete_event(p)
    \/ api_delete_event_cleanup(p)
    \/ api_catch(p)

NextApi ==
    \/ reply = NoReply /\ \E p \in Procs : ApiHandler(p)
    \/ Deliver

\* the state after POST /events of user 1 and of user 2, both with status
\* SWAPPABLE: slot 1 belongs to user 1, slot 2 to user 2
InitApi ==
    /\ events = [s \in SlotIds |-> IF s <= MaxEvents THEN IEvent(IF s = 1 THEN 1 ELSE 2, SWAPPABLE)
                                   ELSE NoDoc]
    /\ nextEventId = MaxEvents
    /\ swapRequests = << >>
    /\ pc = [p \in Procs |-> "idle"]
    /\ op = [p \in Procs |-> "none"]
    /\ user = [p \in Procs |-> 0]
    /\ argA = [p \in Procs |-> 0]
    /\ argB = [p \in Procs |-> 0]
    /\ argS = [p \in Procs |-> "none"]
    /\ wEvents = [p \in Procs |-> NoEvents]
    /\ wRequest = [p \in Procs |-> NoWrite]
    /\ stale = [p \in Procs |-> {}]
    /\ reply = NoReply

\* the single-file server on two tradable slots
SpecApi == InitApi /\ [][NextApi]_vars

\* C29: in the single-file server the offer write and the two slot writes
\* succeed or fail together: once no handler is at work, an Accepted offer
\* has its two slots with exchanged owners and an Open offer has both its
\* slots Locked, also after a failed database call or with a missing event.
C29_WritesTogether ==
    (\A p \in Procs : pc[p] = "idle") =>
        \A i \in 1..Len(swapRequests) :
            LET r == swapRequests[i] IN
            /\ r # Deleted /\ r.status = ACCEPTED =>
                /\ Exists(events, r.requesterEventId)
                /\ Exists(events, r.targetEventId)
                /\ events[r.requesterEventId].userId = r.targetUserId
                /\ events[r.targetEventId].userId = r.requesterId
            /\ r # Deleted /\ r.status = PENDING =>
                /\ Exists(events, r.requesterEventId)
                /\ Exists(events, r.targetEventId)
                /\ events[r.requesterEventId].status = SWAP_PENDING
                /\ events[r.targetEventId].status = SWAP_PENDING

\* ---- the serverless API: the simplified swap handlers ----
\* No session and no transaction: every awaited database call is a step.

\* SwapRequest.findOne({requesterId, targetEventId, requesterEventId,
\*                      status: {$in: ['PENDING', 'ACCEPTED']}})
SlsExisting(reqs, u, a, b) ==
    {i \in 1..Len(reqs) :
        /\ reqs[i].requesterId = u
        /\ reqs[i].requesterEventId = a
        /\ reqs[i].targetEventId = b
        /\ reqs[i].status \in {PENDING, ACCEPTED}}

\* SwapRequest documents stored or about to be stored
SlsOffers == Len(swapRequests) + Cardinality({q \in Procs : pc[q] \in {"sls_fetch", "sls_create"}})

\* POST /swap/request: the lookup of an existing request, which is returned with 200
sls_post_swap_request(p) ==
    /\ Free(p)
    /\ \/ /\ \E u \in Users, a \in SlotIds, b \in SlotIds : SlsExisting(swapRequests, u, a, b) # {}
          /\ Respond(p, "POST /swap/request", "200")
       \/ /\ SlsOffers < MaxOffers
          /\ \E u \in Users, a \in SlotIds, b \in SlotIds :
                /\ SlsExisting(swapRequests, u, a, b) = {}
                /\ Goto(p, "POST /swap/request", "sls_fetch", u, a, b, "none")
    /\ UNCHANGED <<db, wEvents, wRequest, stale>>

\* the checks on the two events fetched in parallel
SlsPostValidate(ev, u, a, b) ==
    IF ~(Exists(ev, a) /\ ev[a].userId = u) THEN "404"
    ELSE IF ~(Exists(ev, b) /\ ev[b].status = SWAPPABLE) THEN "404"
    ELSE IF ev[b].userId = u THEN "400"
    ELSE "OK"

\* Promise.all of the two Event.findOne calls and the checks, up to swapRequestData
sls_post_swap_request_fetch(p) ==
    /\ pc[p] = "sls_fetch"
    /\ LET code == SlsPostValidate(events, user[p], argA[p], argB[p]) IN
       IF code = "OK"
       THEN /\ wRequest' = [wRequest EXCEPT ![p] =
                    [kind |-> "insert",
                     doc |-> ApiSwapRequest(user[p], argA[p], events[argB[p]].userId, argB[p], PENDING)]]
            /\ pc' = [pc EXCEPT ![p] = "sls_create"]
            /\ reply' = NoReply
            /\ UNCHANGED <<op, user, argA, argB, argS>>
       ELSE /\ Respond(p, op[p], code)
            /\ UNCHANGED wRequest
    /\ UNCHANGED <<db, wEvents, stale>>

\* SwapRequest.create(swapRequestData), then the 201 response; the events are not touched
sls_post_swap_request_create(p) ==
    /\ pc[p] = "sls_create"
    /\ swapRequests' = Append(swapRequests, wRequest[p].doc)
    /\ wRequest' = [wRequest EXCEPT ![p] = NoWrite]
    /\ Respond(p, op[p], "201")
    /\ UNCHANGED <<events, nextEventId, wEvents, stale>>

\* PUT /swap/request/:id: SwapRequest.findOne({_id, targetUserId, status: 'PENDING'}),
\* 404 when it finds nothing
sls_put_swap_request(p) ==
    /\ Free(p)
    /\ \/ /\ \E u \in Users, id \in OfferIds : ~ApiFindPending(swapRequests, u, id)
          /\ Respond(p, "PUT /swap/request/:id", "404")
       \/ \E u \in Users, id \in OfferIds, action \in Actions :
             /\ ApiFindPending(swapRequests, u, id)
             /\ Goto(p, "PUT /swap/request/:id", "sls_status", u, id, 0, action)
    /\ UNCHANGED <<db, wEvents, wRequest, stale>>

\* swapRequest.status = 'ACCEPTED' | 'REJECTED'; swapRequest.save(); a reject
\* is answered at once and leaves the events alone
sls_put_swap_request_save(p) ==
    /\ pc[p] = "sls_status"
    /\ IF argS[p] = "accept"
       THEN /\ swapRequests' = [swapRequests EXCEPT ![argA[p]].status = ACCEPTED]
            /\ pc' = [pc EXCEPT ![p] = "sls_lock1"]
            /\ reply' = NoReply
            /\ UNCHANGED <<op, user, argA, argB, argS>>
       ELSE /\ swapRequests' = [swapRequests EXCEPT ![argA[p]].status = REJECTED]
            /\ Respond(p, op[p], "200")
    /\ UNCHANGED <<events, nextEventId, wEvents, wRequest, stale>>

\* Event.findByIdAndUpdate(swapRequest.requesterEventId, {status: 'SWAP_PENDING'})
sls_put_swap_request_lock1(p) ==
    /\ pc[p] = "sls_lock1"
    /\ events' = ApiSetStatus(events, swapRequests[argA[p]].requesterEventId, SWAP_PENDING)
    /\ pc' = [pc EXCEPT ![p] = "sls_lock2"]
    /\ reply' = NoReply
    /\ UNCHANGED <<nextEventId, swapRequests, op, user, argA, argB, argS, wEvents, wRequest, stale>>

\* Event.findByIdAndUpdate(swapRequest.targetEventId, {status: 'SWAP_PENDING'}),
\* then the 200 response
sls_put_swap_request_lock2(p) ==
    /\ pc[p] = "sls_lock2"
    /\ events' = ApiSetStatus(events, swapRequests[argA[p]].targetEventId, SWAP_PENDING)
    /\ Respond(p, op[p], "200")
    /\ UNCHANGED <<nextEventId, swapRequests, wEvents, wRequest, stale>>

SlsHandler(p) ==
    \/ sls_post_swap_request(p)
    \/ sls_post_swap_request_fetch(p)
    \/ sls_post_swap_request_create(p)
    \/ sls_put_swap_request(p)
    \/ sls_put_swap_request_save(p)
    \/ sls_put_swap_request_lock1(p)
    \/ sls_put_swap_request_lock2(p)

NextSls ==
    \/ reply = NoReply /\ \E p \in Procs : SlsHandler(p)
    \/ Deliver

\* the serverless swap handlers on three tradable slots
SpecSls == InitSwap /\ [][NextSls]_vars

\* C28: in the serverless handler a successful accept exchanges the owners of
\* the two events of the offer and leaves both with status BUSY: once the
\* handlers are done, the requester's event belongs to the target owner, the
\* target event to the requester, and neither is SWAP_PENDING.
C28_ServerlessAcceptSwaps ==
    (\A p \in Procs : pc[p] = "idle") =>
        \A i \in 1..Len(swapRequests) :
            LET r == swapRequests[i] IN
            r.status = ACCEPTED =>
                /\ events[r.requesterEventId].userId = r.targetUserId
                /\ events[r.targetEventId].userId = r.requesterId
                /\ events[r.requesterEventId].status = BUSY
                /\ events[r.targetEventId].status = BUSY

\* C30: in the simplified POST /swap/request a request whose triple
\* (requester, requester event, target event) already has a PENDING or
\* ACCEPTED swap request is answered 200 with that request and goes no
\* further, and in every reachable state, whatever the interleaving of
\* concurrent requests, a triple has at most one PENDING or ACCEPTED request.
C30_ServerlessCreateIdempotent ==
    /\ [](\A u \in Users, a \in SlotIds, b \in SlotIds :
            Cardinality(SlsExisting(swapRequests, u, a, b)) <= 1)
    /\ [][\A p \in Procs :
            /\ pc[p] = "idle" /\ pc'[p] = "sls_fetch" =>
                  SlsExisting(swapRequests, user'[p], argA'[p], argB'[p]) = {}
            /\ pc[p] = "idle" /\ reply'.proc = p /\ reply'.op = "POST /swap/request" =>
                  reply'.code = "200"]_vars

\* C31: in every reachable state each Open offer names the current owners of
\* its slots: its requesterId owns its requester slot and its targetUserId
\* owns its target slot, whenever the slot exists.
C31_OpenOfferNamesOwners ==
    \A i \in 1..Len(swapRequests) :
        LET r == swapRequests[i] IN
        r.status = PENDING =>
            /\ Exists(events, r.requesterSlotId) => events[r.requesterSlotId].userId = r.requesterId
            /\ Exists(events, r.targetSlotId) => events[r.targetSlotId].userId = r.targetUserId

\* the existing slots whose owner the step changes
OwnerChanged ==
    {s \in SlotIds : Exists(events, s) /\ Exists(events', s) /\ events'[s].userId # events[s].userId}

\* the number of slots user u owns
Owned(ev, u) == Cardinality({s \in SlotIds : Exists(ev, s) /\ ev[s].userId = u})

\* C32: ownership is conserved: every existing slot has one owner, a user; the
\* owner of a slot changes only when an accept commits; that commit changes
\* the owners of exactly two slots, by exchanging them; and a step that
\* neither creates nor deletes a slot leaves the number of slots of each
\* user unchanged.
C32_OwnershipConserved ==
    /\ [](\A s \in SlotIds : Exists(events, s) => events[s].userId \in Users)
    /\ [][/\ OwnerChanged # {} =>
                /\ \E p \in Procs : Committing(p, "respondToSwapRequest") /\ argS[p] = "accept"
                /\ \E a, b \in OwnerChanged :
                       /\ a # b
                       /\ OwnerChanged = {a, b}
                       /\ events'[a].userId = events[b].userId
                       /\ events'[b].userId = events[a].userId
          /\ (\A s \in SlotIds : Exists(events', s) <=> Exists(events, s)) =>
                \A u \in Users : Owned(events', u) = Owned(events, u)]_vars

\* C33: no lock is permanent: in every reachable state accept and reject by
\* the target owner pass the checks of respondToSwapRequest for every Open
\* offer, and every Locked slot is a slot of an Open offer, the resolution of
\* which unlocks it (updateEvent refuses to change the status of a Locked slot).
C33_NoPermanentLock ==
    /\ \A id \in 1..Len(swapRequests), action \in Actions :
            swapRequests[id].status = PENDING =>
                RsrValidate(events, swapRequests, swapRequests[id].targetUserId, id, action) = "OK"
    /\ \A s \in SlotIds :
            (Exists(events, s) /\ events[s].status = SWAP_PENDING) => OpenOn(swapRequests, s) # {}

\* ---- the controllers with a commit that can fail ----

\* session.withTransaction: the callback has returned and sent its response,
\* and commitTransaction rejects (the primary stepped down, the transaction
\* expired).  The transaction is aborted; a re-run of the callback throws at
\* its response, the headers being sent already, and is aborted as well.
commitTransaction_fails(p) ==
    /\ pc[p] = "commit"
    /\ Rollback(p)
    /\ End(p)
    /\ reply' = NoReply
    /\ UNCHANGED db

NextCommit ==
    \/ reply = NoReply /\ \E p \in Procs : Handler(p)
    \/ reply = NoReply /\ \E p \in Procs : commitTransaction_fails(p)
    \/ Deliver

SpecCommit == Init /\ [][NextCommit]_vars

\* C34: a success response implies a committed transaction: a handler of
\* createSwapRequest or respondToSwapRequest that has sent its success
\* response (it is at its commit) ends only by making the writes of its
\* transaction visible.
C34_SuccessImpliesCommit ==
    [][\A p \in Procs :
          (pc[p] = "commit" /\ pc'[p] # "commit") =>
              /\ events' = ApplyEvents(events, wEvents[p])
              /\ swapRequests' = ApplyRequest(swapRequests, wRequest[p])]_vars

\* ---- the swap handlers on documents with all their fields ----

\* an Event document of the schema: owner, status, title and times
IEventFull(u, st, title, start, end) ==
    [userId |-> u, status |-> st, title |-> title, startTime |-> start, endTime |-> end]

\* the three slots of InitSwap with a title and times each
InitialEvent(s) ==
    IEventFull(IF s = 1 THEN 1 ELSE 2, SWAPPABLE, s,
               IF s = MaxSlots THEN 1 ELSE s, IF s = 1 THEN 2 ELSE MaxTime)

InitFrame ==
    /\ events = [s \in SlotIds |-> InitialEvent(s)]
    /\ nextEventId = MaxSlots
    /\ swapRequests = << >>
    /\ pc = [p \in Procs |-> "idle"]
    /\ op = [p \in Procs |-> "none"]
    /\ user = [p \in Procs |-> 0]
    /\ argA = [p \in Procs |-> 0]
    /\ argB = [p \in Procs |-> 0]
    /\ argS = [p \in Procs |-> "none"]
    /\ wEvents = [p \in Procs |-> NoEvents]
    /\ wRequest = [p \in Procs |-> NoWrite]
    /\ stale = [p \in Procs |-> {}]
    /\ reply = NoReply

FrameHandler(p) ==
    \/ createSwapRequest(p)
    \/ createSwapRequest_retry(p)
    \/ createSwapRequest_update(p)
    \/ createSwapRequest_save(p)
    \/ respondToSwapRequest(p)
    \/ respondToSwapRequest_retry(p)
    \/ respondToSwapRequest_update(p)
    \/ respondToSwapRequest_save(p)
    \/ Commit(p)

NextFrame ==
    \/ reply = NoReply /\ \E p \in Procs : FrameHandler(p)
    \/ Deliver

SpecFrame == InitFrame /\ [][NextFrame]_vars

\* the slots the request of handler p references
Referenced(p) ==
    IF op[p] = "createSwapRequest" THEN {argA[p], argB[p]}
    ELSE {swapRequests[argA[p]].requesterSlotId, swapRequests[argA[p]].targetSlotId}

\* a document without the two fields the swap handlers write
Rest(doc) == [doc EXCEPT !.userId = 0, !.status = "none"]

\* C35: a successful createSwapRequest or respondToSwapRequest changes
\* nothing outside its own triple: its commit leaves every slot other than
\* its two slots and every offer other than the one it creates or resolves
\* unchanged, and leaves the title and the times of its two slots unchanged;
\* no other step of the two handlers changes the collections.
C35_FrameOfSwapHandlers ==
    [][\A p \in Procs :
          /\ \A o \in TxnOps : Committing(p, o) =>
                /\ \A s \in SlotIds \ Referenced(p) : events'[s] = events[s]
                /\ \A s \in Referenced(p) : Rest(events'[s]) = Rest(events[s])
                /\ \A i \in 1..Len(swapRequests) :
                       (o = "createSwapRequest" \/ i # argA[p]) => swapRequests'[i] = swapRequests[i]
                /\ Len(swapRequests') = Len(swapRequests) + (IF o = "createSwapRequest" THEN 1 ELSE 0)
          /\ (Acts(p) /\ pc[p] # "commit") => db' = db]_vars

\* one offer was rejected and another accepted: the accept has exchanged the
\* owners of two slots, and every slot keeps its title and times
C35_Witness ==
    /\ Len(swapRequests) = MaxOffers
    /\ \E i \in 1..Len(swapRequests) : swapRequests[i].status = ACCEPTED
    /\ \E i \in 1..Len(swapRequests) : swapRequests[i].status = REJECTED
    /\ \E s \in SlotIds : events[s].userId # InitialEvent(s).userId
    /\ \A s \in SlotIds : Rest(events[s]) = Rest(InitialEvent(s))

\* C36: for a caller who is not the target owner of a stored offer the
\* outcome of respondToSwapRequest is UNAUTHORIZED_RESPONSE (403) whatever
\* the status of the offer and of its slots, in every reachable state and for
\* both actions; it is the same outcome the caller gets on an Open offer with
\* both slots Locked.
C36_ForbiddenIndependentOfStatus ==
    \A id \in 1..Len(swapRequests), u \in Users, action \in Actions :
        u # swapRequests[id].targetUserId =>
            /\ RsrValidate(events, swapRequests, u, id, action) = "UNAUTHORIZED_RESPONSE"
            /\ RsrValidate([s \in SlotIds |-> IEvent(1, SWAP_PENDING)],
                           [swapRequests EXCEPT ![id].status = PENDING], u, id, action)
                   = RsrValidate(events, swapRequests, u, id, action)

\* a resolved offer, an Open offer one slot of which was deleted, and a user
\* who is the target owner of neither
C36_Witness ==
    /\ \E id \in 1..Len(swapRequests) : swapRequests[id].status # PENDING
    /\ \E id \in 1..Len(swapRequests) :
          /\ swapRequests[id].status = PENDING
          /\ ~Exists(events, swapRequests[id].requesterSlotId)
    /\ \E u \in Users : \A id \in 1..Len(swapRequests) : u # swapRequests[id].targetUserId

\* ---- services/api.ts: the response interceptor of the API client ----
\* In SpecClient a handler is a request of the client: pc is its position,
\* wRequest its config (originalRequest), argB and argS the error of the
\* attempt that failed last, argA the number of times it was issued again.

maxRetries == 3

\* the response statuses of a failed attempt; 0 stands for no response
ErrorStatus == {0, 400, 401, 404, 500, 503}

\* an error of axios: whether the request was sent, and the status of the response
AxiosError(request, status) == [request |-> request, status |-> status]

Errors == {AxiosError(request, status) : request \in BOOLEAN, status \in ErrorStatus}

isNetworkError(error) == error.request /\ error.status = 0

isServerError(error) == error.status >= 500

\* mutant: the comparison with maxRetries is off by one
shouldRetry_OneMore(error, retryCount) ==
    IF retryCount > maxRetries THEN FALSE
    ELSE IF error.status >= 400 /\ error.status < 500 THEN FALSE
    ELSE isNetworkError(error) \/ isServerError(error)

shouldRetry(error, retryCount) ==
    IF retryCount >= maxRetries THEN FALSE
    ELSE IF error.status >= 400 /\ error.status < 500 THEN FALSE
    ELSE isNetworkError(error) \/ isServerError(error)

\* the config of a request with the two marks the interceptor keeps in it
Config(retry, retryCount) == [kind |-> "config", retry |-> retry, retryCount |-> retryCount]

\* api.get / api.post / ...: a request is issued
api_request(p) ==
    /\ pc[p] = "idle"
    /\ pc' = [pc EXCEPT ![p] = "sent"]
    /\ op' = [op EXCEPT ![p] = "api"]
    /\ wRequest' = [wRequest EXCEPT ![p] = Config(FALSE, 0)]
    /\ reply' = NoReply
    /\ UNCHANGED <<db, user, argA, argB, argS, wEvents, stale>>

\* the promise of the request settles: resolved with the response, or rejected
\* with the error
Settle(p, outcome) ==
    /\ Respond(p, "api", outcome)
    /\ wRequest' = [wRequest EXCEPT ![p] = NoWrite]

\* the attempt settles: a response passes through the interceptor, an error
\* is rejected (401, or shouldRetry says no) or waits for its retry delay
api_response(p) ==
    /\ pc[p] = "sent"
    /\ \/ Settle(p, "resolved")
       \/ \E error \in Errors :
            IF error.status = 401 /\ ~wRequest[p].retry
            THEN Settle(p, "rejected")
            ELSE IF shouldRetry(error, wRequest[p].retryCount)
            THEN /\ wRequest' = [wRequest EXCEPT ![p].retryCount = @ + 1]
                 /\ pc' = [pc EXCEPT ![p] = "delay"]
                 /\ argB' = [argB EXCEPT ![p] = error.status]
                 /\ argS' = [argS EXCEPT ![p] = IF error.request THEN "request" ELSE "none"]
                 /\ reply' = NoReply
                 /\ UNCHANGED <<op, user, argA>>
            ELSE Settle(p, "rejected")
    /\ UNCHANGED <<db, wEvents, stale>>

\* await delay(retryDelay) is over: return api(originalRequest)
api_retry(p) ==
    /\ pc[p] = "delay"
    /\ pc' = [pc EXCEPT ![p] = "sent"]
    /\ argA' = [argA EXCEPT ![p] = @ + 1]
    /\ reply' = NoReply
    /\ UNCHANGED <<db, op, user, argB, argS, wEvents, wRequest, stale>>

ClientHandler(p) ==
    \/ api_request(p)
    \/ api_response(p)
    \/ api_retry(p)

NextClient ==
    \/ \E p \in Procs : ClientHandler(p)
    \/ Deliver

\* every attempt settles and every retry delay ends
SpecClient ==
    /\ Init
    /\ [][NextClient]_vars
    /\ \A p \in Procs : WF_vars(api_response(p)) /\ WF_vars(api_retry(p))

\* C37: the retry loop of the API client terminates: a request is issued
\* again at most 3 times, a request waits for a retry only after a network
\* error or a 5xx response, never after a 4xx response, and every request
\* that was issued eventually resolves or rejects.
C37_RetryTerminates ==
    /\ [](\A p \in Procs : argA[p] <= 3)
    /\ [](\A p \in Procs : pc[p] = "delay" =>
              /\ ~(argB[p] >= 400 /\ argB[p] < 500)
              /\ isNetworkError(AxiosError(argS[p] = "request", argB[p]))
                    \/ isServerError(AxiosError(argS[p] = "request", argB[p])))
    /\ \A p \in Procs : (pc[p] # "idle") ~> (reply.proc = p)

\* a request is out for the third time after a network error while another
\* waits for its retry after a 503
C37_Witness ==
    \E p, q \in Procs :
        /\ pc[p] = "sent" /\ argA[p] = 3 /\ argB[p] = 0
        /\ pc[q] = "delay" /\ argB[q] = 503

====
